---- MODULE Spec2Model ----
(***************************************************************************)
(* A model of the carver toolpath generator (carver/cam.py,                *)
(* carver/jobs.py, carver/helpers.py).                                     *)
(*                                                                         *)
(* Lengths are integers; angles are integers counted in quarter turns, so  *)
(* that math.pi is PI = 2 and a full turn is 2*PI = 4.  A pose (keypoint)  *)
(* is a Python list [location, rotation_euler]; the model keeps the        *)
(* identity of that list object in the field id, because the code shares   *)
(* and mutates these objects in place (sorted() keeps the objects,         *)
(* minimize_objects_angular_distance writes into them, deepcopy makes new  *)
(* ones).  id = 0 marks an object owned by the caller alone.               *)
(***************************************************************************)
EXTENDS Integers, Sequences, FiniteSets, TLC

VARIABLES
    tasks,     \* the CAMTask objects: task id -> fields of the object
    TOOL,      \* the shared tool object (bpy Object)
    TARGET,    \* the shared target object (bpy Object)
    job,       \* the XYZIJK_Job object: tasks, keypoints
    ret,       \* the list last returned by get_keypoints, held by the caller
    nextId,    \* the next fresh object identity
    filters,   \* number of remove_unreachable_keypoints calls made
    result,    \* outcome of the last call, as its caller sees it
    objects,   \* argument / value of minimize_objects_angular_distance
    query,     \* a call of pointInsideMesh in progress: its locals
    jobs,      \* further XYZIJK_Job objects: job id -> fields of the object
    lists      \* the Python list objects those jobs refer to

vars == <<tasks, TOOL, TARGET, job, ret, nextId, filters, result, objects,
         query, jobs, lists>>

----------------------------------------------------------------------------
(* Bounds of the model *)

NTasks == 2          \* task objects that can be constructed
MaxCuts == 2         \* largest cuts argument of MultiContourTrace
MaxHeight == 2       \* largest height argument, in mesh heights
MaxFault == 5        \* a host call fails after at most this many successful ones
MaxFilters == 2      \* calls of remove_unreachable_keypoints
MaxIds == 6          \* build() is called while fewer pose objects than this exist
MaxLen == 3          \* length of the sequences given to minimize_objects_angular_distance
MaxAngle == 2        \* those sequences hold angles in -MaxAngle..MaxAngle
MaxOffset == 2       \* query points lie up to this many cells from the mesh centre
Cell == 4            \* spacing of the query points, in restart offsets
NJobs == 2           \* XYZIJK_Job objects that can be constructed
MaxAdds == 3         \* length of the list a job is built on

(* math.pi, in quarter turns *)
PI == 2

----------------------------------------------------------------------------
(* Vectors, Euler angles and matrices (mathutils) *)

Zero3 == <<0, 0, 0>>

VecAdd(u, v) == <<u[1] + v[1], u[2] + v[2], u[3] + v[3]>>

VecScale(k, v) == <<k * v[1], k * v[2], k * v[3]>>

(* exact on the multiples of k, the only vectors it is applied to *)
VecDiv(v, k) == <<v[1] \div k, v[2] \div k, v[3] \div k>>

Cos(a) == CASE a % 4 = 0 -> 1 [] a % 4 = 2 -> -1 [] OTHER -> 0

Sin(a) == CASE a % 4 = 1 -> 1 [] a % 4 = 3 -> -1 [] OTHER -> 0

Identity3 == <<<<1, 0, 0>>, <<0, 1, 0>>, <<0, 0, 1>>>>

Dot(u, v) == u[1] * v[1] + u[2] * v[2] + u[3] * v[3]

MatVec(A, v) == <<Dot(A[1], v), Dot(A[2], v), Dot(A[3], v)>>

Column(B, j) == <<B[1][j], B[2][j], B[3][j]>>

RowMul(r, B) == <<Dot(r, Column(B, 1)), Dot(r, Column(B, 2)), Dot(r, Column(B, 3))>>

MatMul(A, B) == <<RowMul(A[1], B), RowMul(A[2], B), RowMul(A[3], B)>>

(* Euler((x, y, z), 'XYZ').to_matrix(): rotate about X, then Y, then Z *)
EulerToMatrix(e) ==
    LET Rx == <<<<1, 0, 0>>, <<0, Cos(e[1]), -Sin(e[1])>>, <<0, Sin(e[1]), Cos(e[1])>>>>
        Ry == <<<<Cos(e[2]), 0, Sin(e[2])>>, <<0, 1, 0>>, <<-Sin(e[2]), 0, Cos(e[2])>>>>
        Rz == <<<<Cos(e[3]), -Sin(e[3]), 0>>, <<Sin(e[3]), Cos(e[3]), 0>>, <<0, 0, 1>>>>
    IN  MatMul(Rz, MatMul(Ry, Rx))

(* math.atan2(y, x) in quarter turns; defined on the axis-aligned points,
   where the target mesh below puts its surface hits *)
atan2(y, x) ==
    CASE y = 0 /\ x >= 0 -> 0
      [] y > 0 /\ x = 0 -> 1
      [] y = 0 /\ x < 0 -> 2
      [] y < 0 /\ x = 0 -> -1

----------------------------------------------------------------------------
(* The host scene: the target mesh as the geometry queries see it.

   The target is a solid column around the Z axis, from z = 0 to z = MeshTop.
   One mesh height is UnitLen length units, a multiple of every cuts value,
   so that height / cuts is exact.  A horizontal plane through the column
   cuts a ring of vertices; each vertex is of one of four kinds, which differ
   in what the probe points around it and the rays between them meet. *)

RECURSIVE Factorial(_)
Factorial(n) == IF n <= 1 THEN 1 ELSE n * Factorial(n - 1)

UnitLen == Factorial(MaxCuts)

MeshTop == UnitLen

(* bmesh.ops.bisect_plane(...)["geom_cut"] for the plane z = const: the cut
   geometry, empty when the plane misses the mesh *)
bisect_plane(z) ==
    IF z < 0 \/ z > MeshTop THEN <<>>
    ELSE IF z % UnitLen = 0 THEN <<"A", "C", "B">>
    ELSE <<"D", "A">>

(* the vertices of the slice object once the Subdivision modifier is applied *)
SliceVertices(cut) == cut

(* the number of faces a ray from the probe point meets along +X, +Y, +Z:
   the count the loop of pointInsideMesh reaches on each axis.  The probe
   point is side s (1: point + p1*.25, 2: point + p2*.25) of pair k of
   vertex v *)
Crossings(v, k, s) ==
    CASE v = "A" /\ k = 1 /\ s = 1 -> <<1, 1, 1>>
      [] v = "A" /\ k = 1 /\ s = 2 -> <<0, 2, 0>>
      [] v = "A" /\ k = 2 -> <<1, 1, 1>>
      [] v = "B" /\ k = 1 /\ s = 1 -> <<1, 2, 1>>
      [] v = "B" /\ k = 1 /\ s = 2 -> <<2, 1, 1>>
      [] v = "B" /\ k = 2 /\ s = 1 -> <<0, 0, 0>>
      [] v = "B" /\ k = 2 /\ s = 2 -> <<1, 3, 1>>
      [] v = "C" /\ k = 1 -> <<1, 1, 1>>
      [] v = "C" /\ k = 2 -> <<1, 1, 2>>
      [] v = "D" /\ s = 1 -> <<1, 1, 1>>
      [] v = "D" /\ s = 2 -> <<2, 0, 0>>

(* object.ray_cast(origin, direction) from side s of pair k of vertex v
   towards the other side, in the plane z: (hit, location, normal, index).
   rot is what the host makes of the normal in line 81,
   normal.to_track_quat('Z', 'Y').to_euler("XYZ"): Euler angles whose frame
   has its Z axis along the normal *)
Miss == [hit |-> FALSE, location |-> Zero3, normal |-> Zero3, rot |-> Zero3]

ray_cast(v, k, s, z) ==
    CASE v = "A" /\ k = 1 /\ s = 2 ->
            [hit |-> TRUE, location |-> <<0, 1, z>>, normal |-> <<0, 1, 0>>,
             rot |-> <<-1, 0, 0>>]
      [] v = "B" /\ k = 2 /\ s = 1 ->
            [hit |-> TRUE, location |-> <<1, 0, z>>, normal |-> <<1, 0, 0>>,
             rot |-> <<2, 1, -2>>]
      [] v = "D" /\ k = 2 ->
            [hit |-> TRUE, location |-> <<0, -1, z>>, normal |-> <<0, -1, 0>>,
             rot |-> <<1, 0, 0>>]
      [] OTHER -> Miss

----------------------------------------------------------------------------
(* carver/helpers.py *)

(* the parity test on the crossing counts of the three axes: outside as soon
   as one axis has an even count *)
RECURSIVE ParityFrom(_, _)
ParityFrom(count, axis) ==
    IF axis > 3 THEN TRUE
    ELSE IF count[axis] % 2 = 0 THEN FALSE
    ELSE ParityFrom(count, axis + 1)

pointInsideMesh(v, k, s) == ParityFrom(Crossings(v, k, s), 1)

(* ray_cast_from_to(origin, target, collision_object): from side s of the
   pair to its other side *)
ray_cast_from_to(v, k, s, z) == ray_cast(v, k, s, z)

(* the difference left as the modulo gives it, in [0, 2*pi) *)
WrapDiffUnmoved(d) == d % (2 * PI)

(* the wrapped difference: diff % (2*math.pi), moved into [-pi, pi] *)
WrapDiff(d) ==
    LET diff == d % (2 * PI)
    IN  IF diff > PI THEN diff - 2 * PI
        ELSE IF diff < -PI THEN diff + 2 * PI
        ELSE diff

(* the body of the loop over i: the three angles of objects[i] are set from
   those of objects[i-1], object identity kept (a write in place) *)
UnwrapStep(objs, i) ==
    [objs EXCEPT ![i].rot =
        [ax \in 1..3 |-> objs[i - 1].rot[ax] + WrapDiff(@[ax] - objs[i - 1].rot[ax])]]

RECURSIVE UnwrapFrom(_, _)
UnwrapFrom(objs, i) ==
    IF i > Len(objs) THEN objs ELSE UnwrapFrom(UnwrapStep(objs, i), i + 1)

minimize_objects_angular_distance(objs) == UnwrapFrom(objs, 2)

----------------------------------------------------------------------------
(* carver/cam.py: ContourTrace *)

(* A host call (bmesh, bpy.ops, ray_cast) can raise.  f is the number of host
   calls that still succeed before one raises; -1: none raises. *)
NoFault == 0 - 1

Tick(f) == IF f > 0 THEN f - 1 ELSE f

NoContour == [some |-> FALSE, z |-> 0, verts |-> <<>>]

(* CAMTask.__init__ and ContourTrace.__init__ *)
NewContourTrace(center) ==
    [kind |-> "ContourTrace", keypoints |-> <<>>, center |-> center,
     contour |-> NoContour, start |-> Zero3, height |-> 0, cuts |-> 0,
     sub_tasks |-> <<>>]

get_angle_z(obj) == atan2(obj.loc[2], obj.loc[1])

(* sorted(list, key=get_angle_z): a stable sort, the objects kept *)
RECURSIVE InsertSorted(_, _)
InsertSorted(sortedSeq, obj) ==
    IF sortedSeq = <<>> THEN <<obj>>
    ELSE LET last == sortedSeq[Len(sortedSeq)]
         IN  IF get_angle_z(last) <= get_angle_z(obj) THEN Append(sortedSeq, obj)
             ELSE Append(InsertSorted(SubSeq(sortedSeq, 1, Len(sortedSeq) - 1), obj), last)

RECURSIVE SortFrom(_, _, _)
SortFrom(done, list, i) ==
    IF i > Len(list) THEN done ELSE SortFrom(InsertSorted(done, list[i]), list, i + 1)

sorted(list) == SortFrom(<<>>, list, 1)

(* lines 71-78: the two probe pairs of one vertex, the first straddling pair
   decides and ends the loop *)
ProbePair(v, k, z) ==
    IF pointInsideMesh(v, k, 1) /\ ~pointInsideMesh(v, k, 2)
    THEN [done |-> TRUE, result |-> ray_cast_from_to(v, k, 2, z)]
    ELSE IF pointInsideMesh(v, k, 2) /\ ~pointInsideMesh(v, k, 1)
    THEN [done |-> TRUE, result |-> ray_cast_from_to(v, k, 1, z)]
    ELSE [done |-> FALSE, result |-> Miss]

ProbeVertex(v, z) ==
    LET First(p) == IF p.done THEN p.result ELSE ProbePair(v, 2, z).result
    IN  First(ProbePair(v, 1, z))

(* lines 79-83: a hit appends a new [location, rotation_euler] to _keypoints *)
AppendHit(kps, r, nid, offset) ==
    IF r.hit
    THEN Append(kps, [id |-> nid, loc |-> VecAdd(r.location, VecScale(offset, r.normal)),
                      rot |-> r.rot])
    ELSE kps

(* ContourTrace.sample_for_normals: the loop over the contour's vertices,
   from vertex j on; every append goes to self._keypoints itself *)
RECURSIVE SampleFrom(_, _, _, _, _)
SampleFrom(kps, contour, j, nid, f) ==
    IF j > Len(contour.verts)
    THEN [keypoints |-> kps, nid |-> nid, f |-> f, raised |-> FALSE]
    ELSE IF f = 0
    THEN [keypoints |-> kps, nid |-> nid, f |-> f, raised |-> TRUE]
    ELSE LET Sampled(r) == SampleFrom(AppendHit(kps, r, nid, 0), contour, j + 1,
                                      IF r.hit THEN nid + 1 ELSE nid, Tick(f))
         IN  Sampled(ProbeVertex(contour.verts[j], contour.z))

sample_for_normals(t, nid, f) ==
    LET Stored(s) == [task |-> [t EXCEPT !.keypoints = s.keypoints],
                      nid |-> s.nid, f |-> s.f, raised |-> s.raised]
    IN  Stored(SampleFrom(t.keypoints, t.contour, 1, nid, f))

(* get_contour with a plane that misses the mesh treated as an error *)
get_contour_fatal(t, f) ==
    IF f = 0 \/ bisect_plane(t.center[3]) = <<>>
    THEN [task |-> t, f |-> f, raised |-> TRUE]
    ELSE IF Tick(f) = 0
    THEN [task |-> [t EXCEPT !.contour =
                        [some |-> TRUE, z |-> t.center[3],
                         verts |-> SliceVertices(bisect_plane(t.center[3]))]],
          f |-> 0, raised |-> TRUE]
    ELSE [task |-> [t EXCEPT !.contour =
                        [some |-> TRUE, z |-> t.center[3],
                         verts |-> SliceVertices(bisect_plane(t.center[3]))]],
          f |-> Tick(Tick(f)), raised |-> FALSE]

(* ContourTrace.get_contour: the bisect (which can raise); no cut: return,
   self.contour untouched; else self.contour is set and the modifier applied
   (which can raise, self.contour already set) *)
get_contour(t, f) ==
    IF f = 0 THEN [task |-> t, f |-> f, raised |-> TRUE]
    ELSE LET cut == bisect_plane(t.center[3])
             t1 == [t EXCEPT !.contour =
                        [some |-> TRUE, z |-> t.center[3], verts |-> SliceVertices(cut)]]
         IN  IF cut = <<>> THEN [task |-> t, f |-> Tick(f), raised |-> FALSE]
             ELSE IF Tick(f) = 0 THEN [task |-> t1, f |-> 0, raised |-> TRUE]
             ELSE [task |-> t1, f |-> Tick(Tick(f)), raised |-> FALSE]

(* ContourTrace._build *)
ContourTrace_build(t, nid, f) ==
    LET Ordered(s) ==
            IF s.raised THEN s
            ELSE [s EXCEPT !.task.keypoints =
                      minimize_objects_angular_distance(sorted(s.task.keypoints))]
        Sampled(g) ==
            IF g.raised THEN [task |-> g.task, nid |-> nid, f |-> g.f, raised |-> TRUE]
            ELSE IF ~g.task.contour.some
            THEN [task |-> g.task, nid |-> nid, f |-> g.f, raised |-> FALSE]
            ELSE Ordered(sample_for_normals(g.task, nid, g.f))
    IN  Sampled(get_contour(t, f))

----------------------------------------------------------------------------
(* carver/cam.py: MultiContourTrace and CAMTask *)

(* CAMTask.__init__ and MultiContourTrace.__init__ *)
NewMultiContourTrace(start, height, cuts) ==
    [kind |-> "MultiContourTrace", keypoints |-> <<>>, center |-> Zero3,
     contour |-> NoContour, start |-> start, height |-> height, cuts |-> cuts,
     sub_tasks |-> <<>>]

(* a CAMTask of neither subclass: _build raises NotImplementedError *)
NoTask ==
    [kind |-> "none", keypoints |-> <<>>, center |-> Zero3,
     contour |-> NoContour, start |-> Zero3, height |-> 0, cuts |-> 0,
     sub_tasks |-> <<>>]

(* the loop of MultiContourTrace._build from slice i on: a new ContourTrace
   at start + i*dv is built (CAMTask.build: _build, an exception logged and
   raised again) and only then appended to self.sub_tasks *)
RECURSIVE SlicesFrom(_, _, _, _, _)
SlicesFrom(t, i, dv, nid, f) ==
    IF i > t.cuts THEN [task |-> t, nid |-> nid, f |-> f, raised |-> FALSE]
    ELSE LET plane_co == VecAdd(t.start, VecScale(i, dv))
             Appended(b) ==
                 IF b.raised THEN [task |-> t, nid |-> b.nid, f |-> b.f, raised |-> TRUE]
                 ELSE SlicesFrom([t EXCEPT !.sub_tasks = Append(@, b.task)],
                                 i + 1, dv, b.nid, b.f)
         IN  Appended(ContourTrace_build(NewContourTrace(plane_co), nid, f))

(* _build with the loop over range(1, cuts + 1): the first slice left out *)
MultiContourTrace_build_from1(t, nid, f) ==
    SlicesFrom(t, 1, VecDiv(<<0, 0, t.height>>, t.cuts), nid, f)

(* MultiContourTrace._build *)
MultiContourTrace_build(t, nid, f) ==
    LET end == VecAdd(t.start, <<0, 0, t.height>>)
        axis == VecAdd(end, VecScale(0 - 1, t.start))
        dv == VecDiv(axis, t.cuts)
    IN  SlicesFrom(t, 0, dv, nid, f)

(* CAMTask.build: self._build(); an exception is logged and raised again;
   no return statement, the call returns None *)
CAMTask_build(t, nid, f) ==
    IF t.kind = "ContourTrace" THEN ContourTrace_build(t, nid, f)
    ELSE IF t.kind = "MultiContourTrace" THEN MultiContourTrace_build(t, nid, f)
    ELSE [task |-> t, nid |-> nid, f |-> f, raised |-> TRUE]

(* a shallow copy, copy.copy: a new list of the same pose objects *)
shallowcopy(kps) == kps

(* copy.deepcopy of a list of poses: new objects, equal values *)
deepcopy(kps) == [i \in 1..Len(kps) |-> [kps[i] EXCEPT !.id = 0]]

(* CAMTask.get_keypoints *)
CAMTask_get_keypoints(t) == deepcopy(t.keypoints)

(* MultiContourTrace.get_keypoints: points += task.get_keypoints() over
   self.sub_tasks, from sub-task k on *)
RECURSIVE PointsFrom(_, _, _)
PointsFrom(points, subs, k) ==
    IF k > Len(subs) THEN points
    ELSE PointsFrom(points \o CAMTask_get_keypoints(subs[k]), subs, k + 1)

MultiContourTrace_get_keypoints(t) == PointsFrom(<<>>, t.sub_tasks, 1)

get_keypoints(t) ==
    IF t.kind = "MultiContourTrace" THEN MultiContourTrace_get_keypoints(t)
    ELSE CAMTask_get_keypoints(t)

(* the values of a list of poses, whatever objects hold them *)
Values(kps) == [i \in 1..Len(kps) |-> [loc |-> kps[i].loc, rot |-> kps[i].rot]]

----------------------------------------------------------------------------
(* The tool object and the reachability filter *)

(* The tool mesh is one edge, from the tool's origin to one length unit up
   its Z axis.  data is the affine map baked into the mesh data so far. *)
IdentityAffine == [R |-> Identity3, t |-> Zero3]

(* bpy.ops.object.transform_apply(location=True, rotation=True, scale=True)
   on the tool: the object's transform goes into its mesh data and the
   object's location and rotation are reset *)
transform_apply(tool) ==
    LET Baked(M) ==
            [tool EXCEPT !.data = [R |-> MatMul(M, tool.data.R),
                                   t |-> VecAdd(MatVec(M, tool.data.t), tool.location)],
                         !.location = Zero3,
                         !.rotation_euler = Zero3]
    IN  Baked(EulerToMatrix(tool.rotation_euler))

(* bmesh_copy_from_object(obj, transform=True): a new bmesh from obj.data,
   transformed by obj.matrix_world; the two end points of the tool's edge *)
bmesh_copy_from_object(obj) ==
    LET world(M, p) == VecAdd(MatVec(M, VecAdd(MatVec(obj.data.R, p), obj.data.t)),
                              obj.location)
        Copied(M) == <<world(M, Zero3), world(M, <<0, 0, 1>>)>>
    IN  Copied(EulerToMatrix(obj.rotation_euler))

(* the points of the lattice inside the target solid: the column, and a
   ledge beside its foot *)
InsideTarget(p) ==
    \/ p[1] = 0 /\ p[2] = 0 /\ p[3] >= 0 /\ p[3] <= MeshTop
    \/ p = <<0, 2, 0>>

(* bmesh_check_intersect_objects(tool, target): a ray along the tool's edge
   meets a face of the target when the edge crosses the target's surface *)
bmesh_check_intersect_objects(tool, target) ==
    LET Crosses(ed) == InsideTarget(ed[1]) # InsideTarget(ed[2])
    IN  Crosses(bmesh_copy_from_object(tool))

(* the loop of remove_unreachable_keypoints from keypoint j on: the tool is
   moved to the pose, its transform applied, and the pose kept in marks when
   the tool does not intersect the target *)
RECURSIVE MarksFrom(_, _, _, _, _)
MarksFrom(marks, kps, j, tool, target) ==
    IF j > Len(kps) THEN [marks |-> marks, tool |-> tool]
    ELSE LET Tested(placed) ==
                 MarksFrom(IF ~bmesh_check_intersect_objects(placed, target)
                           THEN Append(marks, kps[j]) ELSE marks,
                           kps, j + 1, placed, target)
         IN  Tested(transform_apply([tool EXCEPT !.location = kps[j].loc,
                                                 !.rotation_euler = kps[j].rot]))

remove_unreachable_keypoints(t, tool, target) ==
    LET Stored(m) == [task |-> [t EXCEPT !.keypoints = m.marks], tool |-> m.tool]
    IN  Stored(MarksFrom(<<>>, t.keypoints, 1, tool, target))

----------------------------------------------------------------------------
(* carver/jobs.py: XYZIJK_Job *)

(* what task.build() returns to its caller: CAMTask.build has no return
   statement *)
build_returns(t) == [isNone |-> TRUE, list |-> <<>>]

(* the truth value Python gives a returned value: None and [] are false *)
Truthy(v) == ~v.isNone /\ v.list # <<>>

(* what one run of XYZIJK_Job.build did: the keypoints each task held when
   its build returned, the number of task builds invoked, and the place in
   the list of the task whose build raised (0: none) *)
NoLog == [produced |-> <<>>, invoked |-> 0, failed |-> 0]

(* the loop with a failing task skipped (except: continue) *)
RECURSIVE JobFromSwallow(_, _, _, _, _, _)
JobFromSwallow(ts, j, k, nid, f, log) ==
    IF k > Len(j.tasks)
    THEN [tasks |-> ts, job |-> j, nid |-> nid, raised |-> FALSE, log |-> log]
    ELSE LET Built(b) ==
                 JobFromSwallow([ts EXCEPT ![j.tasks[k]] = b.task], j, k + 1, b.nid,
                                IF b.raised THEN NoFault ELSE b.f,
                                IF b.raised
                                THEN [log EXCEPT !.invoked = @ + 1, !.failed = k]
                                ELSE [log EXCEPT !.invoked = @ + 1,
                                                 !.produced = Append(@, Values(get_keypoints(b.task)))])
         IN  Built(CAMTask_build(ts[j.tasks[k]], nid, f))

(* the loop of XYZIJK_Job.build from task k of the list on; the try block
   logs an exception and raises it again *)
RECURSIVE JobFrom(_, _, _, _, _, _)
JobFrom(ts, j, k, nid, f, log) ==
    IF k > Len(j.tasks)
    THEN [tasks |-> ts, job |-> j, nid |-> nid, raised |-> FALSE, log |-> log]
    ELSE LET t == j.tasks[k]
             Extended(task_keypoints) ==
                 IF Truthy(task_keypoints)
                 THEN [j EXCEPT !.keypoints = @ \o task_keypoints.list]
                 ELSE j
             Built(b) ==
                 IF b.raised
                 THEN [tasks |-> [ts EXCEPT ![t] = b.task], job |-> j, nid |-> b.nid,
                       raised |-> TRUE,
                       log |-> [log EXCEPT !.invoked = @ + 1, !.failed = k]]
                 ELSE JobFrom([ts EXCEPT ![t] = b.task], Extended(build_returns(b.task)),
                              k + 1, b.nid, b.f,
                              [log EXCEPT !.invoked = @ + 1,
                                          !.produced = Append(@, Values(get_keypoints(b.task)))])
         IN  Built(CAMTask_build(ts[t], nid, f))

(* XYZIJK_Job.build: self.keypoints = [], then the loop *)
XYZIJK_Job_build(ts, j, nid, f) ==
    JobFrom(ts, [j EXCEPT !.keypoints = <<>>], 1, nid, f, NoLog)

----------------------------------------------------------------------------
(* carver/helpers.py: pointInsideMesh, one ray cast at a time *)

(* Lengths of a query are counted in units of the restart offset 0.00001 of
   line 40; the reach 10000.0 of line 37 is 10^9 of them. *)
Eps == 1

Far == 1000000000

(* line 31 *)
axes == <<<<1, 0, 0>>, <<0, 1, 0>>, <<0, 0, 1>>>>

(* The mesh of a query is a closed box, which is convex: its centre lies on
   the X axis at cx, its faces half a cell beyond the first ring of query
   points, so that no query point lies on a face. *)
HalfWidth == Cell + Cell \div 2

Box(cx) ==
    [lo |-> <<cx - HalfWidth, 0 - HalfWidth, 0 - HalfWidth>>,
     hi |-> <<cx + HalfWidth, HalfWidth, HalfWidth>>]

Abs(n) == IF n < 0 THEN 0 - n ELSE n

(* the axis a direction vector runs along.  The host normalises the
   direction; of the vectors the code passes (line 37) one component is 10^9
   and the others are coordinates of a point near the box, a drift of less
   than one unit across the box. *)
Heading(d) == CHOOSE a \in 1..3 : \A b \in (1..3) \ {a} : Abs(d[a]) > Abs(d[b])

(* Object.ray_cast(origin, direction) of the host on the box: the first face
   the ray meets leaving origin along direction; index -1 when it meets
   none *)
Object_ray_cast(box, origin, direction) ==
    LET a == Heading(direction)
        Ahead(f) == IF direction[a] > 0 THEN f >= origin[a] ELSE f <= origin[a]
        faces == {f \in {box.lo[a], box.hi[a]} : Ahead(f)}
        InSection == \A b \in (1..3) \ {a} :
                        box.lo[b] < origin[b] /\ origin[b] < box.hi[b]
        Met(fs) == CHOOSE f \in fs : \A g \in fs :
                        Abs(f - origin[a]) <= Abs(g - origin[a])
        Hit(f) == [hit |-> TRUE, location |-> [origin EXCEPT ![a] = f],
                   index |-> IF f = box.lo[a] THEN 2 * a - 1 ELSE 2 * a]
    IN  IF InSection /\ faces # {} THEN Hit(Met(faces))
        ELSE [hit |-> FALSE, location |-> Zero3, index |-> 0 - 1]

(* line 37: the cast of one pass of the while loop *)
CastFrom(box, orig, axis) ==
    Object_ray_cast(box, orig, VecAdd(orig, VecScale(Far, axes[axis])))

(* the hit left out of the count *)
CountedNot(count) == count

(* line 39: count += 1; count is kept modulo 2, which is all the code reads
   of it (line 41) *)
Counted(count) == (count + 1) % 2

(* line 40: orig = location + axis*0.00001 *)
Restart(location, axis) == VecAdd(location, VecScale(Eps, axes[axis]))

(* lines 31-35: the locals of a call pointInsideMesh(point, object) on
   entering the first axis *)
NewQuery(cx, point) ==
    [cx |-> cx, point |-> point, axis |-> 1, orig |-> point, count |-> 0,
     outside |-> FALSE, done |-> FALSE, value |-> FALSE]

(* no call in progress *)
NoQuery == [NewQuery(0, Zero3) EXCEPT !.done = TRUE]

----------------------------------------------------------------------------
(* carver/jobs.py: XYZIJK_Job objects and the lists they hold *)

JobIds == 1..NJobs

(* the list object of the default argument tasks=[] (line 11), made once,
   when the def statement runs; list object j is the one a caller makes for
   job j *)
DefaultList == 0

ListIds == {DefaultList} \cup JobIds

(* XYZIJK_Job.__init__(target, tool, tasks): self.tasks = tasks (line 18), a
   reference to the list object given.  added is not a field of the object:
   it records the tasks add_task was given on this job, in order. *)
XYZIJK_Job_init(tasksArg) == [made |-> TRUE, tasks |-> tasksArg, added |-> <<>>]

NoJobs == [j \in JobIds |-> [made |-> FALSE, tasks |-> DefaultList, added |-> <<>>]]

NoLists == [l \in ListIds |-> <<>>]

(* XYZIJK_Job.get_tasks: return self.tasks *)
XYZIJK_Job_get_tasks(j) == lists[jobs[j].tasks]

----------------------------------------------------------------------------
(* The state machine *)

TaskIds == 1..NTasks

Faults == {NoFault} \cup 0..MaxFault

Centers == {Zero3, <<0, 0, MaxHeight * UnitLen>>}

Heights == {h * UnitLen : h \in 1..MaxHeight}

Cuts == 1..MaxCuts

Starts == {Zero3, <<0, 0, 0 - UnitLen>>}

(* the values a caller writes into a pose it was given *)
Writes ==
    {[field |-> "loc", ax |-> 1, val |-> <<9, 9, 9>>]}
    \cup {[field |-> "rot", ax |-> ax, val |-> <<7, 7, 7>>] : ax \in 1..3}

(* the last call: its name, the task it was made on, whether a host call
   was made to fail in it, whether it raised, and the log of a job build *)
Outcome(op, t, faulted, raised) ==
    [op |-> op, task |-> t, faulted |-> faulted, raised |-> raised, log |-> NoLog]

NoResult == Outcome("none", 0, FALSE, FALSE)

NoCall == [input |-> <<>>, output |-> <<>>, done |-> FALSE]

Init ==
    /\ tasks = [t \in TaskIds |-> NoTask]
    /\ TOOL \in {[location |-> <<0, 0, 3>>, rotation_euler |-> Zero3,
                  rotation_mode |-> m, data |-> IdentityAffine] :
                    m \in {"XYZ", "QUATERNION"}}
    /\ TARGET = [location |-> Zero3, rotation_euler |-> Zero3, data |-> IdentityAffine]
    /\ job = [tasks |-> <<>>, keypoints |-> <<>>]
    /\ ret = [of |-> 0, cells |-> <<>>, written |-> FALSE]
    /\ nextId = 1
    /\ filters = 0
    /\ result = NoResult
    /\ objects = NoCall
    /\ query = NoQuery
    /\ jobs = NoJobs
    /\ lists = NoLists

(* task = ContourTrace(TARGET, TOOL, center); CAMTask.__init__ sets the
   tool's rotation mode *)
ConstructContourTrace(t, center) ==
    /\ tasks[t].kind = "none"
    /\ tasks' = [tasks EXCEPT ![t] = NewContourTrace(center)]
    /\ TOOL' = [TOOL EXCEPT !.rotation_mode = "XYZ"]
    /\ result' = Outcome("new", t, FALSE, FALSE)
    /\ UNCHANGED <<TARGET, job, ret, nextId, filters, objects, query, jobs, lists>>

(* task = MultiContourTrace(TARGET, TOOL, start, height, cuts) *)
ConstructMultiContourTrace(t, start, height, cuts) ==
    /\ tasks[t].kind = "none"
    /\ tasks' = [tasks EXCEPT ![t] = NewMultiContourTrace(start, height, cuts)]
    /\ TOOL' = [TOOL EXCEPT !.rotation_mode = "XYZ"]
    /\ result' = Outcome("new", t, FALSE, FALSE)
    /\ UNCHANGED <<TARGET, job, ret, nextId, filters, objects, query, jobs, lists>>

(* the model calls build() on tasks of bounded size only *)
Buildable(t) ==
    /\ t.kind # "none"
    /\ Len(t.sub_tasks) <= MaxCuts + 1

(* task.build(), with the host calls failing as f says *)
Build(t, f) ==
    /\ Buildable(tasks[t])
    /\ nextId <= MaxIds
    /\ \E b \in {CAMTask_build(tasks[t], nextId, f)} :
           /\ tasks' = [tasks EXCEPT ![t] = b.task]
           /\ nextId' = b.nid
           /\ result' = Outcome("build", t, f # NoFault, b.raised)
    /\ UNCHANGED <<TOOL, TARGET, job, ret, filters, objects, query, jobs, lists>>

(* ret = task.get_keypoints() *)
GetKeypoints(t) ==
    /\ tasks[t].kind # "none"
    /\ ret' = [of |-> t, cells |-> get_keypoints(tasks[t]), written |-> FALSE]
    /\ result' = Outcome("get_keypoints", t, FALSE, FALSE)
    /\ UNCHANGED <<tasks, TOOL, TARGET, job, nextId, filters, objects, query, jobs, lists>>

(* a write into a pose object: every holder of the object sees it *)
Poke(cell, w) ==
    IF w.field = "loc" THEN [cell EXCEPT !.loc = w.val]
    ELSE [cell EXCEPT !.rot[w.ax] = w.val[w.ax]]

PokeList(kps, id, w) ==
    [i \in 1..Len(kps) |-> IF kps[i].id = id THEN Poke(kps[i], w) ELSE kps[i]]

PokeTask(t, id, w) ==
    [t EXCEPT !.keypoints = PokeList(@, id, w),
              !.sub_tasks = [k \in 1..Len(@) |->
                                [@[k] EXCEPT !.keypoints = PokeList(@, id, w)]]]

(* the caller writes into pose i of the list it was given:
   ret[i][0] = val, or ret[i][1][ax] = val *)
WriteReturned(i, w) ==
    /\ ~ret.written
    /\ i \in 1..Len(ret.cells)
    /\ ret' = [ret EXCEPT !.cells[i] = Poke(@, w), !.written = TRUE]
    /\ tasks' = IF ret.cells[i].id = 0 THEN tasks
                ELSE [t \in TaskIds |-> PokeTask(tasks[t], ret.cells[i].id, w)]
    /\ result' = Outcome("write", ret.of, FALSE, FALSE)
    /\ UNCHANGED <<TOOL, TARGET, job, nextId, filters, objects, query, jobs, lists>>

(* the caller removes the last pose of the list it was given: ret.pop() *)
PopReturned ==
    /\ ~ret.written
    /\ ret.cells # <<>>
    /\ ret' = [ret EXCEPT !.cells = SubSeq(@, 1, Len(@) - 1), !.written = TRUE]
    /\ result' = Outcome("write", ret.of, FALSE, FALSE)
    /\ UNCHANGED <<tasks, TOOL, TARGET, job, nextId, filters, objects, query, jobs, lists>>

(* task.remove_unreachable_keypoints() *)
RemoveUnreachable(t) ==
    /\ tasks[t].kind # "none"
    /\ filters < MaxFilters
    /\ \E r \in {remove_unreachable_keypoints(tasks[t], TOOL, TARGET)} :
           /\ tasks' = [tasks EXCEPT ![t] = r.task]
           /\ TOOL' = r.tool
    /\ filters' = filters + 1
    /\ result' = Outcome("remove_unreachable", t, FALSE, FALSE)
    /\ UNCHANGED <<TARGET, job, ret, nextId, objects, query, jobs, lists>>

(* job.add_task(task) *)
AddTask(t) ==
    /\ tasks[t].kind # "none"
    /\ \A k \in 1..Len(job.tasks) : job.tasks[k] # t
    /\ job' = [job EXCEPT !.tasks = Append(@, t)]
    /\ result' = Outcome("add_task", t, FALSE, FALSE)
    /\ UNCHANGED <<tasks, TOOL, TARGET, ret, nextId, filters, objects, query, jobs, lists>>

(* job.build(), with the host calls failing as f says *)
JobBuild(f) ==
    /\ \A k \in 1..Len(job.tasks) : Buildable(tasks[job.tasks[k]])
    /\ nextId <= MaxIds
    /\ \E b \in {XYZIJK_Job_build(tasks, job, nextId, f)} :
           /\ tasks' = b.tasks
           /\ job' = b.job
           /\ nextId' = b.nid
           /\ result' = [Outcome("job_build", 0, f # NoFault, b.raised)
                            EXCEPT !.log = b.log]
    /\ UNCHANGED <<TOOL, TARGET, ret, filters, objects, query, jobs, lists>>

(* one task and its caller *)
Subjects == {1}

Next ==
    \/ \E t \in Subjects, c \in Centers : ConstructContourTrace(t, c)
    \/ \E t \in Subjects, s \in Starts, h \in Heights, n \in Cuts :
            ConstructMultiContourTrace(t, s, h, n)
    \/ \E t \in Subjects, f \in Faults : Build(t, f)
    \/ \E t \in Subjects : GetKeypoints(t)
    \/ \E i \in 1..Len(ret.cells), w \in Writes : WriteReturned(i, w)
    \/ PopReturned

Spec == Init /\ [][Next]_vars

(* one task, built and filtered *)
NextFilter ==
    \/ \E t \in Subjects, c \in Centers : ConstructContourTrace(t, c)
    \/ \E t \in Subjects, s \in Starts, h \in Heights, n \in Cuts :
            ConstructMultiContourTrace(t, s, h, n)
    \/ \E t \in Subjects, f \in Faults : Build(t, f)
    \/ \E t \in Subjects : RemoveUnreachable(t)

SpecFilter == Init /\ [][NextFilter]_vars

(* the script assembles its job before it builds it: tasks are made in
   the order of their ids, and made and added before the first build *)
Assembling(t) ==
    /\ result.op # "job_build"
    /\ \A u \in 1..(t - 1) : tasks[u].kind # "none"

(* a job of up to NTasks tasks, single slices and composites over the
   height of the mesh *)
NextJob ==
    \/ \E t \in TaskIds, c \in Centers :
            Assembling(t) /\ ConstructContourTrace(t, c)
    \/ \E t \in TaskIds :
            Assembling(t) /\ ConstructMultiContourTrace(t, Zero3, MeshTop, MaxCuts)
    \/ \E t \in TaskIds : Assembling(t) /\ AddTask(t)
    \/ \E f \in Faults : JobBuild(f)

SpecJob == Init /\ [][NextJob]_vars

(* minimize_objects_angular_distance on its own, on sequences of poses with
   angles of any size: the first axis takes every angle, the second the two
   extreme ones, the third their difference *)
Angles == (0 - MaxAngle)..MaxAngle

Rots == {<<a, b, a - b>> : a \in Angles, b \in {0 - MaxAngle, MaxAngle}}

PoseLists ==
    UNION {[1..n -> {[id |-> 0, loc |-> Zero3, rot |-> r] : r \in Rots}] : n \in 1..MaxLen}

InitUnwrap ==
    /\ tasks = [t \in TaskIds |-> NoTask]
    /\ TOOL = [location |-> <<0, 0, 3>>, rotation_euler |-> Zero3,
               rotation_mode |-> "XYZ", data |-> IdentityAffine]
    /\ TARGET = [location |-> Zero3, rotation_euler |-> Zero3, data |-> IdentityAffine]
    /\ job = [tasks |-> <<>>, keypoints |-> <<>>]
    /\ ret = [of |-> 0, cells |-> <<>>, written |-> FALSE]
    /\ nextId = 1
    /\ filters = 0
    /\ result = NoResult
    /\ objects \in {[input |-> l, output |-> <<>>, done |-> FALSE] : l \in PoseLists}
    /\ query = NoQuery
    /\ jobs = NoJobs
    /\ lists = NoLists

Unwrap ==
    /\ ~objects.done
    /\ objects' = [objects EXCEPT !.output = minimize_objects_angular_distance(objects.input),
                                  !.done = TRUE]
    /\ result' = Outcome("minimize", 0, FALSE, FALSE)
    /\ UNCHANGED <<tasks, TOOL, TARGET, job, ret, nextId, filters, query, jobs, lists>>

NextUnwrap == Unwrap

SpecUnwrap == InitUnwrap /\ [][NextUnwrap]_vars

----------------------------------------------------------------------------
(* a call of pointInsideMesh on a box, on a query point inside or outside *)

Centres == {0, 0 - 2 * Far}

Offsets == (0 - MaxOffset)..MaxOffset

QueryPoints(cx) ==
    {<<cx + Cell * i, Cell * j, Cell * k>> : i \in Offsets, j \in Offsets, k \in Offsets}

InitInside ==
    /\ tasks = [t \in TaskIds |-> NoTask]
    /\ TOOL = [location |-> <<0, 0, 3>>, rotation_euler |-> Zero3,
               rotation_mode |-> "XYZ", data |-> IdentityAffine]
    /\ TARGET = [location |-> Zero3, rotation_euler |-> Zero3, data |-> IdentityAffine]
    /\ job = [tasks |-> <<>>, keypoints |-> <<>>]
    /\ ret = [of |-> 0, cells |-> <<>>, written |-> FALSE]
    /\ nextId = 1
    /\ filters = 0
    /\ result = NoResult
    /\ objects = NoCall
    /\ query \in {NewQuery(cx, p) : cx \in Centres,
                                      p \in UNION {QueryPoints(c) : c \in Centres}}
    /\ jobs = NoJobs
    /\ lists = NoLists

(* lines 37-40: a pass of the while loop in which the ray hits: the hit is
   counted and the next ray starts just off the place of the hit *)
CastHit ==
    /\ ~query.done
    /\ \E r \in {CastFrom(Box(query.cx), query.orig, query.axis)} :
          /\ r.index # 0 - 1
          /\ query' = [query EXCEPT !.count = Counted(@),
                                    !.orig = Restart(r.location, query.axis)]
    /\ UNCHANGED <<tasks, TOOL, TARGET, job, ret, nextId, filters, result, objects,
                   jobs, lists>>

(* lines 38, 41-44: the pass in which the ray misses ends the while loop; an
   even count ends the call with outside = True, an odd one goes on to the
   next axis, and after the last axis the call returns not outside *)
CastMiss ==
    /\ ~query.done
    /\ CastFrom(Box(query.cx), query.orig, query.axis).index = 0 - 1
    /\ query' = IF query.count % 2 = 0
                THEN [query EXCEPT !.outside = TRUE, !.done = TRUE, !.value = FALSE]
                ELSE IF query.axis < Len(axes)
                THEN [query EXCEPT !.axis = @ + 1, !.orig = query.point, !.count = 0]
                ELSE [query EXCEPT !.done = TRUE, !.value = ~query.outside]
    /\ UNCHANGED <<tasks, TOOL, TARGET, job, ret, nextId, filters, result, objects,
                   jobs, lists>>

NextInside == CastHit \/ CastMiss

SpecInside == InitInside /\ [][NextInside]_vars

(* the call runs on as long as it can *)
SpecInsideFair == SpecInside /\ WF_vars(NextInside)

----------------------------------------------------------------------------
(* jobs made by the script, with and without a tasks argument *)

(* job = XYZIJK_Job(TARGET, TOOL) *)
ConstructJob(j) ==
    /\ ~jobs[j].made
    /\ jobs' = [jobs EXCEPT ![j] = XYZIJK_Job_init(DefaultList)]
    /\ result' = Outcome("new_job", j, FALSE, FALSE)
    /\ UNCHANGED <<tasks, TOOL, TARGET, job, ret, nextId, filters, objects, query, lists>>

(* job = XYZIJK_Job(TARGET, TOOL, tasks=[]), the list a new one *)
ConstructJobWith(j) ==
    /\ ~jobs[j].made
    /\ jobs' = [jobs EXCEPT ![j] = XYZIJK_Job_init(j)]
    /\ result' = Outcome("new_job", j, FALSE, FALSE)
    /\ UNCHANGED <<tasks, TOOL, TARGET, job, ret, nextId, filters, objects, query, lists>>

(* job.add_task(task): self.tasks.append(task) *)
XYZIJK_Job_add_task(j, t) ==
    /\ jobs[j].made
    /\ Len(lists[jobs[j].tasks]) < MaxAdds
    /\ lists' = [lists EXCEPT ![jobs[j].tasks] = Append(@, t)]
    /\ jobs' = [jobs EXCEPT ![j].added = Append(@, t)]
    /\ result' = Outcome("add_task", j, FALSE, FALSE)
    /\ UNCHANGED <<tasks, TOOL, TARGET, job, ret, nextId, filters, objects, query>>

NextJobs ==
    \/ \E j \in JobIds : ConstructJob(j)
    \/ \E j \in JobIds : ConstructJobWith(j)
    \/ \E j \in JobIds, t \in TaskIds : XYZIJK_Job_add_task(j, t)

SpecJobs == Init /\ [][NextJobs]_vars

----------------------------------------------------------------------------
(* The claims *)

(* the step is a call of op on task t *)
Called(op, t) == result'.op = op /\ result'.task = t /\ vars' # vars

(* what get_keypoints() of a task gives, by value *)
Keypoints(t) == Values(get_keypoints(t))

(* C1: build() is idempotent: a build() that follows a build() of the same
   task (neither raising) leaves get_keypoints() as the first one left it *)
C1_BuildIdempotent ==
    [][\A t \in TaskIds :
        (/\ result.op = "build" /\ result.task = t /\ ~result.raised
         /\ Called("build", t) /\ ~result'.raised)
        => Keypoints(tasks'[t]) = Keypoints(tasks[t])]_vars

(* C2: get_keypoints() returns a deep copy and has no side effect: the list
   returned holds the task's poses by value in objects of its own, the call
   leaves every task as it was, and so does every later write into the list
   or into a pose of it *)
C2_GetKeypointsDeepCopy ==
    [][/\ \A t \in TaskIds :
            Called("get_keypoints", t) =>
                /\ tasks' = tasks
                /\ Values(ret'.cells) = Keypoints(tasks[t])
                /\ \A i \in 1..Len(ret'.cells) : ret'.cells[i].id = 0
       /\ \A t \in TaskIds :
            Called("write", t) =>
                /\ tasks' = tasks
                /\ \A u \in TaskIds : Keypoints(tasks'[u]) = Keypoints(tasks[u])]_vars

(* a pose of a returned list was written, and the list now differs from the
   non-empty sequence its task holds, ContourTrace or MultiContourTrace *)
C2_Witness ==
    /\ result.op = "write"
    /\ ret.written
    /\ ret.of \in TaskIds
    /\ tasks[ret.of].kind = "MultiContourTrace"
    /\ Len(ret.cells) = Len(get_keypoints(tasks[ret.of]))
    /\ Len(ret.cells) >= 2
    /\ Values(ret.cells) # Keypoints(tasks[ret.of])

(* C3: in the output of minimize_objects_angular_distance, the angles of
   consecutive poses differ by at most pi on each of the three axes *)
C3_UnwrappedDeltasWithinPi ==
    objects.done =>
        \A i \in 2..Len(objects.output) : \A ax \in 1..3 :
            LET delta == objects.output[i].rot[ax] - objects.output[i - 1].rot[ax]
            IN  0 - PI <= delta /\ delta <= PI

(* three poses were unwrapped, the second and the third both moved, the
   third by another amount than against the second as it was given *)
C3_Witness ==
    /\ objects.done
    /\ Len(objects.output) = 3
    /\ objects.output[2].rot # objects.input[2].rot
    /\ objects.output[3].rot # objects.input[3].rot
    /\ \E ax \in 1..3 :
          LET raw == objects.input[3].rot[ax] - objects.input[2].rot[ax]
          IN  raw > PI \/ raw < 0 - PI

(* the values of the sub-tasks' keypoint sequences, one after the other *)
RECURSIVE ChildrenInOrder(_)
ChildrenInOrder(subs) ==
    IF subs = <<>> THEN <<>>
    ELSE Values(Head(subs).keypoints) \o ChildrenInOrder(Tail(subs))

RECURSIVE SumOfLengths(_)
SumOfLengths(subs) ==
    IF subs = <<>> THEN 0 ELSE Len(Head(subs).keypoints) + SumOfLengths(Tail(subs))

(* C4: one build() of a MultiContourTrace without sub-tasks, cuts = n >= 1,
   leaves n+1 ContourTrace sub-tasks, sub-task i slicing at
   start + i*(height/n) along Z, and get_keypoints() is the sub-tasks'
   sequences one after the other in slice order *)
C4_MultiSliceComposite ==
    [][\A t \in TaskIds :
        (/\ tasks[t].kind = "MultiContourTrace" /\ tasks[t].sub_tasks = <<>>
         /\ tasks[t].cuts >= 1
         /\ Called("build", t) /\ ~result'.raised)
        => LET T == tasks'[t]
               n == tasks[t].cuts
           IN  /\ Len(T.sub_tasks) = n + 1
               /\ \A i \in 0..n :
                     LET child == T.sub_tasks[i + 1]
                     IN  /\ child.kind = "ContourTrace"
                         /\ child.center[1] = T.start[1]
                         /\ child.center[2] = T.start[2]
                         /\ n * (child.center[3] - T.start[3]) = i * T.height
                         /\ \A j \in 1..Len(child.keypoints) :
                               child.keypoints[j].loc[3] = child.center[3]
               /\ Keypoints(T) = ChildrenInOrder(T.sub_tasks)
               /\ Len(get_keypoints(T)) = SumOfLengths(T.sub_tasks)]_vars

(* a MultiContourTrace with cuts = 2 was built once: three sub-tasks, all
   with keypoints, five in all *)
C4_Witness ==
    /\ result.op = "build" /\ ~result.raised
    /\ result.task \in TaskIds
    /\ tasks[result.task].kind = "MultiContourTrace"
    /\ tasks[result.task].cuts = 2
    /\ Len(tasks[result.task].sub_tasks) = 3
    /\ \A k \in 1..3 : tasks[result.task].sub_tasks[k].keypoints # <<>>
    /\ Len(get_keypoints(tasks[result.task])) = 5

(* the tasks' keypoint sequences, one after the other in task-list order *)
RECURSIVE TasksInOrder(_, _)
TasksInOrder(ts, list) ==
    IF list = <<>> THEN <<>>
    ELSE Keypoints(ts[Head(list)]) \o TasksInOrder(ts, Tail(list))

(* C5: after XYZIJK_Job.build() returned normally, job.keypoints is the
   tasks' keypoint sequences one after the other, in task-list order *)
C5_JobAggregates ==
    (result.op = "job_build" /\ ~result.raised)
        => Values(job.keypoints) = TasksInOrder(tasks, job.tasks)

(* C6: when the build of task k of the list raises during Job.build(), the
   exception leaves Job.build(), no build was invoked after the k-th, the
   tasks after k are untouched and every other task before k holds the
   keypoint sequence its build produced *)
C6_BuildFailurePropagates ==
    [][(Called("job_build", 0) /\ result'.log.failed > 0)
        => LET k == result'.log.failed
           IN  /\ result'.raised
               /\ result'.log.invoked = k
               /\ k <= Len(job.tasks)
               /\ job'.tasks = job.tasks
               /\ Len(result'.log.produced) = k - 1
               /\ \A i \in 1..(k - 1) :
                     Keypoints(tasks'[job.tasks[i]]) = result'.log.produced[i]
               /\ \A i \in (k + 1)..Len(job.tasks) :
                     tasks'[job.tasks[i]] = tasks[job.tasks[i]]]_vars

(* a job build failed in its second task, the first task keeping the
   keypoints its build produced *)
C6_Witness ==
    /\ result.op = "job_build" /\ result.raised
    /\ result.log.failed = 2
    /\ result.log.produced[1] # <<>>
    /\ Keypoints(tasks[job.tasks[1]]) = result.log.produced[1]

(* C7: a build() that raises leaves get_keypoints() of the task as it was
   before the call *)
C7_BuildAtomic ==
    [][\A t \in TaskIds :
        (Called("build", t) /\ result'.raised)
        => Keypoints(tasks'[t]) = Keypoints(tasks[t])]_vars

(* the pair of probe points of vertex v that decides: the first one with one
   point inside the mesh and one outside (0: none) *)
StraddlingPair(v) ==
    IF pointInsideMesh(v, 1, 1) # pointInsideMesh(v, 1, 2) THEN 1
    ELSE IF pointInsideMesh(v, 2, 1) # pointInsideMesh(v, 2, 2) THEN 2
    ELSE 0

(* vertex v of the slice at z gives a pose: a pair straddles the surface and
   the ray from its outside point to its inside point hits *)
GivesPose(v, z) ==
    /\ StraddlingPair(v) # 0
    /\ LET k == StraddlingPair(v)
       IN  ray_cast(v, k, IF pointInsideMesh(v, k, 1) THEN 2 ELSE 1, z).hit

(* the number of poses the slice at z gives *)
PosesOfSlice(z) ==
    Cardinality({j \in 1..Len(bisect_plane(z)) : GivesPose(bisect_plane(z)[j], z)})

(* C8: a build() in which no host call fails does not raise; a ContourTrace
   whose plane misses the mesh gets no pose from it; every slice of a
   MultiContourTrace is built, before and after a missing one; and a slice
   gives one pose for each vertex that straddles and hits, none for the
   others *)
C8_GeometryMissRecovered ==
    [][\A t \in TaskIds :
        (Called("build", t) /\ ~result'.faulted)
        => /\ ~result'.raised
           /\ tasks[t].kind = "ContourTrace" =>
                 Len(tasks'[t].keypoints) =
                    Len(tasks[t].keypoints) + PosesOfSlice(tasks[t].center[3])
           /\ tasks[t].kind = "MultiContourTrace" =>
                 /\ Len(tasks'[t].sub_tasks) = Len(tasks[t].sub_tasks) + tasks[t].cuts + 1
                 /\ \A k \in 1..Len(tasks'[t].sub_tasks) :
                       Len(tasks'[t].sub_tasks[k].keypoints) =
                          PosesOfSlice(tasks'[t].sub_tasks[k].center[3])]_vars

(* a MultiContourTrace was built whose first plane misses the mesh: the
   sub-task of that plane has no contour and no pose, the two after it were
   built and have two poses each from their three vertices *)
C8_Witness ==
    /\ result.op = "build" /\ ~result.raised /\ ~result.faulted
    /\ result.task \in TaskIds
    /\ tasks[result.task].kind = "MultiContourTrace"
    /\ Len(tasks[result.task].sub_tasks) = 3
    /\ ~tasks[result.task].sub_tasks[1].contour.some
    /\ tasks[result.task].sub_tasks[1].keypoints = <<>>
    /\ \A k \in 2..3 :
          /\ Len(tasks[result.task].sub_tasks[k].contour.verts) = 3
          /\ Len(tasks[result.task].sub_tasks[k].keypoints) = 2

(* the tool as it is, placed at pose p alone, does not intersect the target *)
ReachableAlone(p) ==
    ~bmesh_check_intersect_objects(
        [TOOL EXCEPT !.location = p.loc, !.rotation_euler = p.rot], TARGET)

(* C9: remove_unreachable_keypoints leaves the poses at which the tool alone
   does not intersect the target, in their order and as they were *)
C9_PerPoseFilter ==
    [][\A t \in TaskIds :
        Called("remove_unreachable", t)
        => tasks'[t].keypoints = SelectSeq(tasks[t].keypoints, ReachableAlone)]_vars

(* C10: no call changes the target object or the tool object's mesh data,
   location or rotation *)
C10_MeshesReadOnly ==
    [][/\ TARGET' = TARGET
       /\ TOOL'.data = TOOL.data
       /\ TOOL'.location = TOOL.location
       /\ TOOL'.rotation_euler = TOOL.rotation_euler]_vars

(* point p lies strictly inside the box *)
StrictlyInside(box, p) == \A a \in 1..3 : box.lo[a] < p[a] /\ p[a] < box.hi[a]

(* the number of faces of the box that the ray from p along +axis a crosses *)
FacesBeyond(box, p, a) ==
    IF \A b \in (1..3) \ {a} : box.lo[b] < p[b] /\ p[b] < box.hi[b]
    THEN Cardinality({f \in {box.lo[a], box.hi[a]} : f > p[a]})
    ELSE 0

(* C11: what pointInsideMesh returns is True exactly when the ray from the
   point along each of +X, +Y, +Z crosses the mesh an odd number of times;
   on a closed convex mesh that is True for the points strictly inside and
   False for the points strictly outside *)
C11_ParityClassification ==
    query.done =>
        /\ query.value = (\A a \in 1..3 :
                            FacesBeyond(Box(query.cx), query.point, a) % 2 = 1)
        /\ query.value = StrictlyInside(Box(query.cx), query.point)

(* a call returned True for a point inside the box that is not its centre,
   after the third axis *)
C11_Witness ==
    /\ query.done /\ query.value
    /\ query.axis = 3
    /\ query.point # <<query.cx, 0, 0>>
    /\ StrictlyInside(Box(query.cx), query.point)

(* C12: every call of pointInsideMesh returns *)
C12_PointInsideMeshTerminates == <>query.done

(* C13: get_tasks() of a job made without a tasks argument gives the tasks
   added to that job, in the order added, and no others *)
C13_JobTaskListIsolation ==
    \A j \in JobIds :
        (jobs[j].made /\ jobs[j].tasks = DefaultList)
            => XYZIJK_Job_get_tasks(j) = jobs[j].added

====
